---- MODULE Spec2Model ----
(***************************************************************************)
(* Synthesizer-based constrained PRF (cprf.py): keyGen, eval, constrain.   *)
(*                                                                         *)
(* Python list objects live in `heap` (a row of the key matrix is one list *)
(* object, named by its index in heap), so that copying and aliasing of    *)
(* rows is visible.  A draw of secrets.token_bytes(16) is modelled as a    *)
(* fresh token: the n-th draw of a run returns the integer n.  The base    *)
(* PRF is modelled as the free (collision-free, deterministic) pairing of  *)
(* its two arguments.                                                      *)
(***************************************************************************)
EXTENDS Integers, Sequences, FiniteSets, TLC

VARIABLES heap, tok, msk, pat1, pat2, val, ck1, ck2, out, cframe, eframe

vars == <<heap, tok, msk, pat1, pat2, val, ck1, ck2, out, cframe, eframe>>

(* Width of the key matrix: range(128) in keyGen and constrain. *)
N == 128

(* Bits per byte of the value: f'{byte:08b}'. *)
ByteBits == 8

(* ---- bounds of the explored inputs ---- *)

(* Number of columns at which patterns and values vary freely. *)
NumProbe == 2

(* Patterns reach N + MaxExtra characters, values N/8 + MaxExtra bytes. *)
MaxExtra == 1

(***************************************************************************)
(* cmacPRF and keyGen                                                      *)
(***************************************************************************)

cmacPRF(key, v) == <<key, v>>

KeyGen(h, t) ==
  LET row(r) == [c \in 0..(N - 1) |-> t + r * N + c]
  IN  [heap |-> h \o <<row(0), row(1)>>,
       tok  |-> t + 2 * N,
       key  |-> [prf |-> "cmacPRF", keyMat |-> <<Len(h) + 1, Len(h) + 2>>]]

(***************************************************************************)
(* eval                                                                    *)
(***************************************************************************)

(* f'{byte:08b}': the byte as ByteBits characters, most significant first. *)
FormatByte(byte) ==
  [k \in 1..ByteBits |->
     IF (byte \div (2 ^ (ByteBits - k))) % 2 = 1 THEN "1" ELSE "0"]

(* list(''.join(f'{byte:08b}' for byte in val)) *)
RECURSIVE Binrep(_)
Binrep(v) ==
  IF v = <<>> THEN <<>> ELSE FormatByte(Head(v)) \o Binrep(Tail(v))

(* int(binrep[i]) *)
IntOf(ch) == IF ch = "1" THEN 1 ELSE 0

(* State of one call of eval after lines 55-57. reads lists the matrix     *)
(* entries dereferenced so far as <<row, column>>.                         *)
EvalEnter(key, v) ==
  LET b == Binrep(v)
  IN  [pc |-> IF 0 < Len(b) THEN "leaf" ELSE "reduce",
       keyMat |-> key.keyMat, binrep |-> b, i |-> 0, leaves |-> <<>>,
       reads |-> <<>>, leafCalls |-> 0, redCalls |-> 0,
       status |-> "running", out |-> <<>>]

EvalRaise(f, reads, redCalls) ==
  [f EXCEPT !.pc = "raised", !.status = "IndexError",
            !.reads = reads, !.redCalls = redCalls]

(* EvalLeaf with the second entry selected by the first bit of the pair. *)
EvalLeafSameBit(h, f) ==
  LET i    == f.i
      r1   == IntOf(f.binrep[i + 1])
      row1 == h[f.keyMat[r1 + 1]]
  IN  IF i \notin DOMAIN row1 \/ (i + 1) \notin DOMAIN row1
         \/ i + 2 > Len(f.binrep)
      THEN EvalRaise(f, f.reads, f.redCalls)
      ELSE [f EXCEPT
              !.leaves = Append(@, cmacPRF(row1[i], row1[i + 1])),
              !.reads = f.reads \o <<(<<r1, i>>), (<<r1, i + 1>>)>>,
              !.leafCalls = @ + 1,
              !.i = i + 2,
              !.pc = IF i + 2 < Len(f.binrep) THEN "leaf" ELSE "reduce"]

(* One iteration of the leaf loop, lines 60-63. *)
EvalLeaf(h, f) ==
  LET i    == f.i
      r1   == IntOf(f.binrep[i + 1])
      row1 == h[f.keyMat[r1 + 1]]
      rd1  == Append(f.reads, <<r1, i>>)
  IN  IF i \notin DOMAIN row1 THEN EvalRaise(f, f.reads, f.redCalls)
      ELSE IF i + 2 > Len(f.binrep) THEN EvalRaise(f, rd1, f.redCalls)
      ELSE LET r2   == IntOf(f.binrep[i + 2])
               row2 == h[f.keyMat[r2 + 1]]
           IN  IF (i + 1) \notin DOMAIN row2
               THEN EvalRaise(f, rd1, f.redCalls)
               ELSE [f EXCEPT
                       !.leaves = Append(@, cmacPRF(row1[i], row2[i + 1])),
                       !.reads = Append(rd1, <<r2, i + 1>>),
                       !.leafCalls = @ + 1,
                       !.i = i + 2,
                       !.pc = IF i + 2 < Len(f.binrep) THEN "leaf"
                              ELSE "reduce"]

(* EvalRound folding each leaf with the one half a sequence away. *)
EvalRoundStrided(f) ==
  LET n == Len(f.leaves)
  IN  IF n % 2 = 1
      THEN EvalRaise(f, f.reads, f.redCalls + (n - 1) \div 2)
      ELSE [f EXCEPT
              !.leaves = [j \in 1..(n \div 2) |->
                            cmacPRF(f.leaves[j], f.leaves[j + n \div 2])],
              !.redCalls = @ + n \div 2]

(* One round of the reduction, lines 66-70 (taken when len(leaves) > 1). *)
EvalRound(f) ==
  LET n == Len(f.leaves)
  IN  IF n % 2 = 1
      THEN EvalRaise(f, f.reads, f.redCalls + (n - 1) \div 2)
      ELSE [f EXCEPT
              !.leaves = [j \in 1..(n \div 2) |->
                            cmacPRF(f.leaves[2 * j - 1], f.leaves[2 * j])],
              !.redCalls = @ + n \div 2]

(* return leaves[0], line 72 (taken when len(leaves) <= 1). *)
EvalReturn(f) ==
  IF Len(f.leaves) = 0 THEN EvalRaise(f, f.reads, f.redCalls)
  ELSE [f EXCEPT !.pc = "done", !.status = "ok", !.out = f.leaves[1]]

EvalStep(h, f) ==
  IF f.pc = "leaf" THEN EvalLeaf(h, f)
  ELSE IF Len(f.leaves) > 1 THEN EvalRound(f)
  ELSE EvalReturn(f)

RECURSIVE EvalLoop(_, _)
EvalLoop(h, f) ==
  IF f.pc \in {"done", "raised"} THEN f ELSE EvalLoop(h, EvalStep(h, f))

(* What a finished call hands to its caller, with the counts of its work. *)
OutputOf(f) ==
  [status |-> f.status, out |-> f.out, reads |-> f.reads,
   leafCalls |-> f.leafCalls, redCalls |-> f.redCalls]

(* eval(key, v) run to its end on heap h. *)
EvalRun(h, key, v) == OutputOf(EvalLoop(h, EvalEnter(key, v)))

(***************************************************************************)
(* constrain                                                               *)
(***************************************************************************)

(* CopyMatrix without the copy: newKey names the rows of the source. *)
CopyMatrixAlias(h, keyMat) == [heap |-> h, newKey |-> keyMat]

(* CopyMatrix copying the first matrix of the heap, whatever the source. *)
CopyMatrixFirst(h, keyMat) ==
  [heap   |-> h \o <<[col \in 0..(N - 1) |-> h[1][col]],
                     [col \in 0..(N - 1) |-> h[2][col]]>>,
   newKey |-> <<Len(h) + 1, Len(h) + 2>>]

(* Line 87: the copy of the matrix, two new row lists. *)
CopyMatrix(h, keyMat) ==
  [heap   |-> h \o <<[col \in 0..(N - 1) |-> h[keyMat[1]][col]],
                     [col \in 0..(N - 1) |-> h[keyMat[2]][col]]>>,
   newKey |-> <<Len(h) + 1, Len(h) + 2>>]

(* TargetRow with the rows exchanged. *)
TargetRowSwapped(ch) == IF ch = "1" THEN 1 ELSE IF ch = "0" THEN 0 ELSE -1

(* TargetRow without the elif branch. *)
TargetRowOnlyOne(ch) == IF ch = "1" THEN 0 ELSE -1

(* Lines 91-94: the row rewritten for a pattern character, -1 for none. *)
TargetRow(ch) == IF ch = "1" THEN 0 ELSE IF ch = "0" THEN 1 ELSE -1

(* State of one call of constrain after lines 84-87. *)
ConstrainEnter(h, t, key, pattern) ==
  LET c == CopyMatrix(h, key.keyMat)
  IN  [heap |-> c.heap, tok |-> t,
       frame |-> [pc |-> IF 0 < Len(pattern) THEN "loop" ELSE "return",
                  prf |-> key.prf, newKey |-> c.newKey,
                  pattern |-> pattern, i |-> 0, status |-> "running"]]

(* ConstrainIter rewriting both rows of a fixed column. *)
ConstrainIterBoth(h, t, f) ==
  LET i    == f.i
      row  == TargetRow(f.pattern[i + 1])
      next == [f EXCEPT !.i = i + 1,
                        !.pc = IF i + 1 < Len(f.pattern) THEN "loop"
                               ELSE "return"]
  IN  IF row = -1 THEN [heap |-> h, tok |-> t, frame |-> next]
      ELSE IF i \notin DOMAIN h[f.newKey[row + 1]]
      THEN [heap |-> h, tok |-> t + 1,
            frame |-> [f EXCEPT !.pc = "raised", !.status = "IndexError"]]
      ELSE [heap |-> [h EXCEPT ![f.newKey[1]][i] = t,
                               ![f.newKey[2]][i] = t + 1],
            tok |-> t + 2, frame |-> next]

(* One iteration of the loop of lines 90-94. The token is drawn before    *)
(* the assignment newKey[row][i] = ... can raise.                          *)
ConstrainIter(h, t, f) ==
  LET i    == f.i
      row  == TargetRow(f.pattern[i + 1])
      next == [f EXCEPT !.i = i + 1,
                        !.pc = IF i + 1 < Len(f.pattern) THEN "loop"
                               ELSE "return"]
  IN  IF row = -1 THEN [heap |-> h, tok |-> t, frame |-> next]
      ELSE IF i \notin DOMAIN h[f.newKey[row + 1]]
      THEN [heap |-> h, tok |-> t + 1,
            frame |-> [f EXCEPT !.pc = "raised", !.status = "IndexError"]]
      ELSE [heap |-> [h EXCEPT ![f.newKey[row + 1]][i] = t],
            tok |-> t + 1, frame |-> next]

(* return (prf, newKey), line 96. *)
ConstrainReturn(h, t, f) ==
  [heap |-> h, tok |-> t,
   frame |-> [f EXCEPT !.pc = "done", !.status = "ok"]]

ConstrainStep(h, t, f) ==
  IF f.pc = "loop" THEN ConstrainIter(h, t, f) ELSE ConstrainReturn(h, t, f)

RECURSIVE ConstrainLoop(_)
ConstrainLoop(c) ==
  IF c.frame.pc \in {"done", "raised"} THEN c
  ELSE ConstrainLoop(ConstrainStep(c.heap, c.tok, c.frame))

NoKey == [prf |-> "none", keyMat |-> <<>>]

(* What a finished call hands to its caller: a key, or the exception. *)
ResultOf(f) ==
  [status |-> f.status,
   key |-> IF f.status = "ok" THEN [prf |-> f.prf, keyMat |-> f.newKey]
           ELSE NoKey]

(* constrain(key, pattern) run to its end on heap h. *)
ConstrainRun(h, t, key, pattern) ==
  LET c == ConstrainLoop(ConstrainEnter(h, t, key, pattern))
  IN  [heap |-> c.heap, tok |-> c.tok, result |-> ResultOf(c.frame)]

(***************************************************************************)
(* Inputs                                                                  *)
(***************************************************************************)

(* Columns at which the inputs vary: both ends of the matrix, both columns *)
(* of the first and of the last leaf, and the middle.                      *)
ProbeOrder == <<0, N - 1, 1, N - 2, N \div 2>>

ProbeCols ==
  {ProbeOrder[j] : j \in 1..(IF NumProbe < Len(ProbeOrder) THEN NumProbe
                             ELSE Len(ProbeOrder))}

PatLens == {0, 1, N - 1} \cup {N + e : e \in 0..MaxExtra}

(* The pattern of length len that is fill everywhere but at the columns    *)
(* of ov, where it is ov.                                                  *)
PatternOf(len, fill, ov) ==
  [k \in 1..len |-> IF (k - 1) \in DOMAIN ov THEN ov[k - 1] ELSE fill]

PatternsOver(cols, lens, fills, chars) ==
  {PatternOf(len, fill, ov) :
     len \in lens, fill \in fills, ov \in [cols -> chars]}

(* Patterns as a caller may pass them, "x" standing for any character      *)
(* outside the alphabet.                                                   *)
Patterns ==
  PatternsOver(ProbeCols, {len \in PatLens : len <= N},
               {"*", "0", "1"}, {"0", "1", "*", "x"})

(* The same, longer than N too, and varying at the first column only.      *)
LongPatterns ==
  PatternsOver({ProbeOrder[1]}, PatLens,
               {"*", "0", "1"}, {"0", "1", "*", "x"})

(* Full-width patterns over {0,1,*}, fixed at probe columns only, and      *)
(* fixed at the first column only.                                         *)
ValidPatterns == PatternsOver(ProbeCols, {N}, {"*"}, {"0", "1", "*"})

SecondPatterns == PatternsOver({ProbeOrder[1]}, {N}, {"*"}, {"0", "1", "*"})

ByteLens == {0, 1, 2, 3, 4, 8} \cup {N \div ByteBits + e : e \in 0..MaxExtra}

(* The value of nb bytes whose bits all equal fillBit but at the probe     *)
(* columns in flips, where they are the opposite.                          *)
ValueOf(nb, fillBit, flips) ==
  LET bit(c) == IF c \in flips THEN 1 - fillBit ELSE fillBit
      RECURSIVE byteAt(_, _)
      byteAt(j, k) ==
        IF k = ByteBits THEN 0
        ELSE bit(ByteBits * (j - 1) + k) * (2 ^ (ByteBits - 1 - k))
             + byteAt(j, k + 1)
  IN  [j \in 1..nb |-> byteAt(j, 0)]

ValuesOver(lens, fillBits) ==
  {ValueOf(nb, fillBit, flips) :
     nb \in lens, fillBit \in fillBits, flips \in SUBSET ProbeCols}

Values == ValuesOver(ByteLens, {0, 1})

(***************************************************************************)
(* State                                                                   *)
(***************************************************************************)

KeyNames == {"msk", "ck1", "ck2"}

NoResult == [status |-> "none", key |-> NoKey]

NoOutput ==
  [status |-> "none", out |-> <<>>, reads |-> <<>>,
   leafCalls |-> 0, redCalls |-> 0]

Idle == [pc |-> "idle"]

(* The state after msk = keyGen(), before any other call. *)
Master == KeyGen(<<>>, 1)

InitWith(P1, P2, V) ==
  /\ heap = Master.heap
  /\ tok = Master.tok
  /\ msk = Master.key
  /\ pat1 \in P1
  /\ pat2 \in P2
  /\ val \in V
  /\ ck1 = NoResult
  /\ ck2 = NoResult
  /\ out = [k \in KeyNames |-> NoOutput]
  /\ cframe = Idle
  /\ eframe = Idle

KeyOf(k) == IF k = "msk" THEN msk ELSE IF k = "ck1" THEN ck1.key ELSE ck2.key

HasKey(k) == k = "msk" \/ (k = "ck1" /\ ck1.status = "ok")
                       \/ (k = "ck2" /\ ck2.status = "ok")

(***************************************************************************)
(* Spec: whole calls.  ck1 = constrain(msk, pat1), eval(k, val).           *)
(***************************************************************************)

Constrain1 ==
  /\ ck1.status = "none"
  /\ \E r \in {ConstrainRun(heap, tok, msk, pat1)} :
         /\ heap' = r.heap
         /\ tok' = r.tok
         /\ ck1' = r.result
  /\ UNCHANGED <<msk, pat1, pat2, val, ck2, out, cframe, eframe>>

Eval(k) ==
  /\ HasKey(k)
  /\ out' = [out EXCEPT ![k] = EvalRun(heap, KeyOf(k), val)]
  /\ UNCHANGED <<heap, tok, msk, pat1, pat2, val, ck1, ck2, cframe, eframe>>

Init ==
  InitWith(Patterns, {<<>>},
           ValuesOver({1, N \div ByteBits}, {0, 1}))

Next == Constrain1 \/ \E k \in {"msk", "ck1"} : Eval(k)

Spec == Init /\ [][Next]_vars

(***************************************************************************)
(* SpecChain: ck1 = constrain(msk, pat1), ck2 = constrain(ck1, pat2).      *)
(***************************************************************************)

Constrain2 ==
  /\ ck1.status = "ok"
  /\ ck2.status = "none"
  /\ \E r \in {ConstrainRun(heap, tok, ck1.key, pat2)} :
         /\ heap' = r.heap
         /\ tok' = r.tok
         /\ ck2' = r.result
  /\ UNCHANGED <<msk, pat1, pat2, val, ck1, out, cframe, eframe>>

InitChain ==
  InitWith(ValidPatterns, SecondPatterns, ValuesOver({N \div ByteBits}, {0}))

NextChain == Constrain1 \/ Constrain2 \/ \E k \in {"msk", "ck2"} : Eval(k)

SpecChain == InitChain /\ [][NextChain]_vars

(***************************************************************************)
(* SpecConstrain: constrain(msk, pat1) statement by statement, patterns    *)
(* longer than N included.                                                 *)
(***************************************************************************)

ConstrainCall ==
  /\ cframe.pc = "idle"
  /\ ck1.status = "none"
  /\ \E c \in {ConstrainEnter(heap, tok, msk, pat1)} :
         /\ heap' = c.heap
         /\ tok' = c.tok
         /\ cframe' = c.frame
  /\ UNCHANGED <<msk, pat1, pat2, val, ck1, ck2, out, eframe>>

ConstrainLoopStep ==
  /\ cframe.pc = "loop"
  /\ \E c \in {ConstrainIter(heap, tok, cframe)} :
         /\ heap' = c.heap
         /\ tok' = c.tok
         /\ cframe' = c.frame
  /\ UNCHANGED <<msk, pat1, pat2, val, ck1, ck2, out, eframe>>

ConstrainReturnStep ==
  /\ cframe.pc = "return"
  /\ \E c \in {ConstrainReturn(heap, tok, cframe)} :
         /\ ck1' = ResultOf(c.frame)
         /\ cframe' = Idle
  /\ UNCHANGED <<heap, tok, msk, pat1, pat2, val, ck2, out, eframe>>

(* The IndexError of line 92 or 94 leaves constrain. *)
ConstrainRaiseStep ==
  /\ cframe.pc = "raised"
  /\ ck1' = ResultOf(cframe)
  /\ cframe' = Idle
  /\ UNCHANGED <<heap, tok, msk, pat1, pat2, val, ck2, out, eframe>>

InitConstrain == InitWith(LongPatterns, {<<>>}, {<<>>})

NextConstrain ==
  \/ ConstrainCall
  \/ ConstrainLoopStep
  \/ ConstrainReturnStep
  \/ ConstrainRaiseStep

SpecConstrain == InitConstrain /\ [][NextConstrain]_vars

(***************************************************************************)
(* SpecEval: eval(msk, val) statement by statement, values of every        *)
(* length included.  A call that has started runs to its end.              *)
(***************************************************************************)

EvalCall ==
  /\ eframe.pc = "idle"
  /\ out["msk"].status = "none"
  /\ eframe' = EvalEnter(msk, val)
  /\ UNCHANGED <<heap, tok, msk, pat1, pat2, val, ck1, ck2, out, cframe>>

EvalLeafStep ==
  /\ eframe.pc = "leaf"
  /\ eframe' = EvalLeaf(heap, eframe)
  /\ UNCHANGED <<heap, tok, msk, pat1, pat2, val, ck1, ck2, out, cframe>>

EvalRoundStep ==
  /\ eframe.pc = "reduce"
  /\ Len(eframe.leaves) > 1
  /\ eframe' = EvalRound(eframe)
  /\ UNCHANGED <<heap, tok, msk, pat1, pat2, val, ck1, ck2, out, cframe>>

EvalReturnStep ==
  /\ eframe.pc = "reduce"
  /\ Len(eframe.leaves) <= 1
  /\ eframe' = EvalReturn(eframe)
  /\ UNCHANGED <<heap, tok, msk, pat1, pat2, val, ck1, ck2, out, cframe>>

(* The value, or the IndexError, reaches the caller. *)
EvalExit ==
  /\ eframe.pc \in {"done", "raised"}
  /\ out' = [out EXCEPT !["msk"] = OutputOf(eframe)]
  /\ eframe' = Idle
  /\ UNCHANGED <<heap, tok, msk, pat1, pat2, val, ck1, ck2, cframe>>

InitEval == InitWith({<<>>}, {<<>>}, Values)

NextEval ==
  \/ EvalCall
  \/ EvalLeafStep
  \/ EvalRoundStep
  \/ EvalReturnStep
  \/ EvalExit

SpecEval == InitEval /\ [][NextEval]_vars /\ WF_vars(NextEval)

(***************************************************************************)
(* Vocabulary of the properties                                            *)
(***************************************************************************)

NumBits(v) == ByteBits * Len(v)

(* Bit i of v, bits numbered from the most significant bit of byte 0. *)
BitOf(v, i) ==
  (v[(i \div ByteBits) + 1] \div (2 ^ (ByteBits - 1 - (i % ByteBits)))) % 2

InAlphabet(p) == \A k \in 1..Len(p) : p[k] \in {"0", "1", "*"}

Fixed(p, i) == p[i + 1] \in {"0", "1"}

PatBit(p, i) == IF p[i + 1] = "1" THEN 1 ELSE 0

(* The fixed positions of p that are bit positions of v. *)
FixedCols(p, v) ==
  {i \in 0..((IF Len(p) < NumBits(v) THEN Len(p) ELSE NumBits(v)) - 1) :
     Fixed(p, i)}

Agrees(p, v) == \A i \in FixedCols(p, v) : BitOf(v, i) = PatBit(p, i)

Disagreements(p, v) == {i \in FixedCols(p, v) : BitOf(v, i) # PatBit(p, i)}

Evaluated(k) == out[k].status # "none"

SameResult(a, b) == a.status = b.status /\ a.out = b.out

(* Entry [r][c] of the matrix of key k, and of the matrix keyGen made. *)
Entry(k, r, c) == heap[KeyOf(k).keyMat[r + 1]][c]

MskEntry(r, c) == Master.heap[Master.key.keyMat[r + 1]][c]

(* A token drawn after keyGen. *)
Fresh(t) == t >= Master.tok

(***************************************************************************)
(* Properties                                                              *)
(***************************************************************************)

PreC1 ==
  /\ ck1.status = "ok"
  /\ Len(pat1) <= N
  /\ InAlphabet(pat1)
  /\ Agrees(pat1, val)
  /\ Evaluated("msk")
  /\ Evaluated("ck1")

(* C1: when val agrees with every fixed position of pat1, eval of val      *)
(* under constrain(msk, pat1) gives what eval under msk gives, and every   *)
(* entry that eval read holds the value it has in msk.                     *)
InvC1 ==
  PreC1 =>
    /\ SameResult(out["ck1"], out["msk"])
    /\ \A k \in 1..Len(out["ck1"].reads) :
         LET rd == out["ck1"].reads[k]
         IN  Entry("ck1", rd[1], rd[2]) = MskEntry(rd[1], rd[2])

WitC1 ==
  /\ PreC1
  /\ out["ck1"].status = "ok"
  /\ NumBits(val) = N
  /\ FixedCols(pat1, val) # {}

PreC3 ==
  /\ ck1.status = "ok"
  /\ Len(pat1) <= N
  /\ InAlphabet(pat1)
  /\ Disagreements(pat1, val) # {}
  /\ Evaluated("msk")
  /\ Evaluated("ck1")

(* C3: when val differs from pat1 at a fixed position i, eval under        *)
(* constrain(msk, pat1) reads at column i an entry drawn by constrain,     *)
(* not the entry of msk, and its output differs from the output under msk. *)
InvC3 ==
  PreC3 =>
    /\ \A i \in Disagreements(pat1, val) :
         /\ \E k \in 1..Len(out["ck1"].reads) :
              out["ck1"].reads[k] = <<BitOf(val, i), i>>
         /\ Fresh(Entry("ck1", BitOf(val, i), i))
         /\ Entry("ck1", BitOf(val, i), i) # MskEntry(BitOf(val, i), i)
    /\ out["msk"].status = "ok" =>
         out["ck1"].status = "ok" /\ out["ck1"].out # out["msk"].out

WitC3 == PreC3 /\ out["msk"].status = "ok" /\ NumBits(val) = N

(* C4 as claimed: a pattern without "*" leaves exactly one value on which  *)
(* the constrained key evaluates as msk does.                              *)
OrigC4 ==
  (ck1.status = "ok" /\ \A k \in 1..Len(pat1) : pat1[k] \in {"0", "1"}) =>
    Cardinality({v \in ValuesOver({1, N \div ByteBits}, {0, 1}) :
                   /\ EvalRun(heap, ck1.key, v).status = "ok"
                   /\ SameResult(EvalRun(heap, ck1.key, v),
                                 EvalRun(heap, msk, v))}) = 1

PreC4 ==
  /\ ck1.status = "ok"
  /\ Len(pat1) = N
  /\ \A k \in 1..Len(pat1) : pat1[k] \in {"0", "1"}
  /\ NumBits(val) = N
  /\ Evaluated("msk")
  /\ Evaluated("ck1")

(* C4, amended: for a pattern of exactly N characters, all "0" or "1", and *)
(* a value of N bits, both evaluations return, and they return the same    *)
(* output exactly when the bits of the value are the pattern.              *)
InvC4 ==
  PreC4 =>
    /\ out["msk"].status = "ok"
    /\ out["ck1"].status = "ok"
    /\ out["ck1"].out = out["msk"].out
         <=> \A i \in 0..(N - 1) : BitOf(val, i) = PatBit(pat1, i)

WitC4 == PreC4 /\ out["ck1"].out = out["msk"].out

(* C5 as claimed: eval of a value whose bit length is not N fails with     *)
(* InputLengthError and returns no output.                                 *)
CexC5 ==
  (Evaluated("msk") /\ NumBits(val) # N) =>
    out["msk"].status = "InputLengthError" /\ out["msk"].out = <<>>

(* C6 as claimed: constrain of a pattern longer than N fails with          *)
(* PatternLengthError and returns no key.                                  *)
CexC6 ==
  (ck1.status # "none" /\ Len(pat1) > N) =>
    ck1.status = "PatternLengthError" /\ ck1.key = NoKey

(* C7 as claimed: constrain of a pattern with a character outside {0,1,*}  *)
(* fails with InvalidPatternError and returns no key.                      *)
CexC7 ==
  (ck1.status # "none" /\ ~InAlphabet(pat1)) =>
    ck1.status = "InvalidPatternError" /\ ck1.key = NoKey

(* The character constrain sees at column i: beyond the pattern, none. *)
CharAt(p, i) == IF i < Len(p) THEN p[i + 1] ELSE "*"

(* C8: in the matrix constrain(msk, pat1) returns, a column under "1" has  *)
(* a fresh row 0 and msk's row 1, a column under "0" a fresh row 1 and     *)
(* msk's row 0, a column under "*" or beyond the pattern both of msk's;    *)
(* the prf is msk's and the matrix is 2 x N.                               *)
InvC8 ==
  (ck1.status = "ok" /\ Len(pat1) <= N) =>
    /\ ck1.key.prf = msk.prf
    /\ Len(ck1.key.keyMat) = 2
    /\ \A r \in {0, 1} : DOMAIN heap[ck1.key.keyMat[r + 1]] = 0..(N - 1)
    /\ \A i \in 0..(N - 1) :
         /\ CharAt(pat1, i) = "1" =>
              /\ Fresh(Entry("ck1", 0, i))
              /\ Entry("ck1", 0, i) # MskEntry(0, i)
              /\ Entry("ck1", 1, i) = MskEntry(1, i)
         /\ CharAt(pat1, i) = "0" =>
              /\ Fresh(Entry("ck1", 1, i))
              /\ Entry("ck1", 1, i) # MskEntry(1, i)
              /\ Entry("ck1", 0, i) = MskEntry(0, i)
         /\ CharAt(pat1, i) = "*" =>
              /\ Entry("ck1", 0, i) = MskEntry(0, i)
              /\ Entry("ck1", 1, i) = MskEntry(1, i)

WitC8 ==
  /\ ck1.status = "ok"
  /\ Len(pat1) = N - 1
  /\ \E k \in 1..Len(pat1) : pat1[k] = "1"
  /\ \E k \in 1..Len(pat1) : pat1[k] = "0"

(* The two values of N bits that between them read every entry of msk. *)
UniformValues == ValuesOver({N \div ByteBits}, {0, 1}) \cap
                 {ValueOf(N \div ByteBits, b, {}) : b \in {0, 1}}

(* What eval(msk, v) returns before constrain is called. *)
OutputBefore == [v \in UniformValues |-> EvalRun(Master.heap, Master.key, v)]

(* C2: at every statement of constrain(msk, pat1), returning or raising,   *)
(* the matrix of msk holds what keyGen put there, eval under msk returns   *)
(* what it returned before the call, and the rows of the new matrix are    *)
(* not rows of msk's matrix.                                               *)
InvC2 ==
  /\ msk = Master.key
  /\ \A r \in {0, 1} : \A c \in 0..(N - 1) : Entry("msk", r, c) = MskEntry(r, c)
  /\ \A v \in UniformValues : SameResult(EvalRun(heap, msk, v), OutputBefore[v])
  /\ cframe.pc # "idle" =>
       {cframe.newKey[1], cframe.newKey[2]} \cap {msk.keyMat[1], msk.keyMat[2]} = {}
  /\ ck1.status = "ok" =>
       /\ {ck1.key.keyMat[1], ck1.key.keyMat[2]}
            \cap {msk.keyMat[1], msk.keyMat[2]} = {}
       /\ ck1.key.keyMat[1] # ck1.key.keyMat[2]

WitC2 == cframe.pc = "raised" /\ cframe.i = N /\ tok > Master.tok + 1

RECURSIVE PowerOfTwo(_)
PowerOfTwo(n) == n = 1 \/ (n > 1 /\ n % 2 = 0 /\ PowerOfTwo(n \div 2))

(* val has M bits, M <= N and M/2 a power of two. *)
PreC9 ==
  \E v \in {val} :
     NumBits(v) <= N /\ NumBits(v) % 2 = 0 /\ PowerOfTwo(NumBits(v) \div 2)

(* Leaf j of the tree of val under msk, j counted from 0. *)
LeafC9(j) ==
  cmacPRF(Entry("msk", BitOf(val, 2 * j), 2 * j),
          Entry("msk", BitOf(val, 2 * j + 1), 2 * j + 1))

(* Root of the complete binary tree over the n leaves from leaf lo on. *)
RECURSIVE TreeRoot(_, _)
TreeRoot(lo, n) ==
  IF n = 1 THEN LeafC9(lo)
  ELSE cmacPRF(TreeRoot(lo, n \div 2), TreeRoot(lo + n \div 2, n \div 2))

ShapeC9 ==
  PreC9 =>
    /\ eframe.pc # "raised"
    /\ eframe.pc = "reduce" =>
         /\ PowerOfTwo(Len(eframe.leaves))
         /\ eframe.redCalls = 0 =>
              eframe.leaves = [j \in 1..(NumBits(val) \div 2) |-> LeafC9(j - 1)]
    /\ Evaluated("msk") =>
         /\ out["msk"].status = "ok"
         /\ out["msk"].out = TreeRoot(0, NumBits(val) \div 2)
         /\ out["msk"].leafCalls = NumBits(val) \div 2
         /\ out["msk"].redCalls = NumBits(val) \div 2 - 1
         /\ out["msk"].reads =
              [k \in 1..NumBits(val) |-> <<BitOf(val, k - 1), k - 1>>]

HalveC9 ==
  (PreC9 /\ eframe.pc = "reduce" /\ eframe'.pc = "reduce") =>
    2 * Len(eframe'.leaves) = Len(eframe.leaves)

(* C9: for a value of M bits, M/2 a power of two and M <= N, a started     *)
(* eval returns; what it returns is the root of the complete binary tree   *)
(* over the M/2 leaves prf(keyMat[bit(2j)][2j], keyMat[bit(2j+1)][2j+1]);  *)
(* every reduction round halves the sequence; it makes M/2 leaf calls and  *)
(* M/2 - 1 reduction calls and reads one entry per column below M, in the  *)
(* row of the bit, and no other.                                           *)
ThmC9 ==
  /\ []ShapeC9
  /\ [][HalveC9]_vars
  /\ (PreC9 /\ eframe.pc # "idle") ~> (out["msk"].status = "ok")

WitC9 == PreC9 /\ NumBits(val) = N /\ out["msk"].status = "ok"

PreC10 ==
  /\ ck2.status = "ok"
  /\ Len(pat1) <= N
  /\ Len(pat2) <= N
  /\ InAlphabet(pat1)
  /\ InAlphabet(pat2)

(* C10: under constrain(constrain(msk, pat1), pat2), a value agreeing with *)
(* the fixed positions of both patterns evaluates as under msk; no entry   *)
(* the first constrain redrew holds msk's value again; and a value         *)
(* differing from pat1 at a fixed position reads there an entry that is    *)
(* not msk's.                                                              *)
InvC10 ==
  PreC10 =>
    /\ (Agrees(pat1, val) /\ Agrees(pat2, val)
          /\ Evaluated("msk") /\ Evaluated("ck2")) =>
         SameResult(out["ck2"], out["msk"])
    /\ \A i \in 0..(Len(pat1) - 1) :
         Fixed(pat1, i) =>
           Entry("ck2", 1 - PatBit(pat1, i), i) # MskEntry(1 - PatBit(pat1, i), i)
    /\ Evaluated("ck2") =>
         \A i \in Disagreements(pat1, val) :
           /\ \E k \in 1..Len(out["ck2"].reads) :
                out["ck2"].reads[k] = <<BitOf(val, i), i>>
           /\ Entry("ck2", BitOf(val, i), i) # MskEntry(BitOf(val, i), i)

WitC10 ==
  /\ PreC10
  /\ Agrees(pat1, val)
  /\ Agrees(pat2, val)
  /\ FixedCols(pat1, val) # {}
  /\ FixedCols(pat2, val) # {}
  /\ pat1 # pat2
  /\ out["ck2"].status = "ok"
  /\ Evaluated("msk")

====
